---- MODULE Spec2Model ----
(***************************************************************************)
(* Investment calendar: change detection and data lifecycle.               *)
(*                                                                         *)
(* The model follows scripts/daily_calendar.py (adapters' normalisation,   *)
(* DataStorage, ChangeDetectionEngine, DataLifecycleManager,               *)
(* DailyTaskScheduler) and scripts/historical_collector.py                 *)
(* (_save_monthly_data and its StandardizedEvent).                         *)
(*                                                                         *)
(* Dates are day numbers 1, 2, ... of the year 2025 (the year the          *)
(* historical collector hard-codes); the order on day numbers is the       *)
(* lexicographic order the code uses on 'YYYY-MM-DD' strings.  A month has *)
(* MonthLen days.  Text fields are strings; Python's None in a text field  *)
(* is the string "None", which is also how an f-string renders it.         *)
(***************************************************************************)
EXTENDS Integers, Sequences, FiniteSets, TLC

VARIABLES
    today,      \* the calendar day datetime.now() reports
    seed,       \* the string-hash salt of the running Python process
    pc,         \* position of the running entry point
    runDate,    \* the boundary date ("yesterday") the running daily update computed
    feed,       \* the platform whose source has items in this behaviour, and their shape
    world,      \* the items that source currently lists
    current,    \* data/active/current/<platform>.txt
    previous,   \* data/active/previous/<platform>.txt
    archive,    \* data/archived/2025/<month>/<platform>.txt
    newData,    \* future_data: the lists collected by the running entry point
    changes,    \* all_changes returned by the running detection
    outage,     \* the platforms whose source cannot be reached in this behaviour
    marker,     \* data/active/current/first_run_marker.txt exists
    report,     \* data/active/current/change_report_<day>.txt, as last written
    answer,     \* what the last query returned
    request,    \* one per-day investing request: its inputs, attempts and result
    pool,       \* the thread pool of one investing collection and its merged list
    metadata,   \* data/active/current/metadata.txt
    ret,        \* the entry point that returned last, and what it returned
    range,      \* PlatformRangeDetector: range_cache and the calls made
    everNew     \* history: the keys the detections so far classified new

vars == <<today, seed, pc, runDate, feed, world, current, previous, archive,
          newData, changes, outage, marker, report, answer, request, pool,
          metadata, ret, range, everNew>>

----------------------------------------------------------------------------
(* Bounds of the model *)

MaxDay == 3         \* the clock runs over the days 1..MaxDay
MonthLen == 2       \* days per calendar month
MaxLen == 2         \* longest list an adapter or the historical collector returns
MaxEvents == 3      \* events in previous plus current of a detection on arbitrary lists
MaxSeed == 1        \* string-hash salts 0..MaxSeed
DetectToday == 2    \* the day on which detection on arbitrary lists runs

Days == 1..MaxDay
Seeds == 0..MaxSeed
Month(d) == ((d - 1) \div MonthLen) + 1
DayOfMonth(d) == ((d - 1) % MonthLen) + 1
Months == 1..Month(MaxDay)

\* strftime('%Y-%m-%d') of a day, and the same with the dashes removed
DateIso(d) == "2025-0" \o ToString(Month(d)) \o "-0" \o ToString(DayOfMonth(d))
DateCompact(d) == "20250" \o ToString(Month(d)) \o "0" \o ToString(DayOfMonth(d))

platforms == <<"cls", "jiuyangongshe", "tonghuashun", "investing", "eastmoney">>
Platforms == {platforms[i] : i \in 1..Len(platforms)}

----------------------------------------------------------------------------
(* Sequence helpers *)

Range(s) == {s[i] : i \in 1..Len(s)}

RECURSIVE SeqsUpTo(_, _)
SeqsUpTo(S, n) ==
    IF n = 0 THEN {<<>>}
    ELSE LET shorter == SeqsUpTo(S, n - 1)
         IN  shorter \cup {Append(s, x) : s \in {t \in shorter : Len(t) = n - 1}, x \in S}

MapSeq(s, F(_)) == [i \in 1..Len(s) |-> F(s[i])]

\* the elements at the positions where the field value first occurs
FirstIdx(s, i, Key(_)) == \A j \in 1..(i - 1) : Key(s[j]) # Key(s[i])
LastIdx(s, i, Key(_)) == \A j \in (i + 1)..Len(s) : Key(s[j]) # Key(s[i])

RECURSIVE PickIdx(_, _, _)
PickIdx(s, keep, i) ==
    IF i > Len(s) THEN <<>>
    ELSE IF i \in keep THEN <<s[i]>> \o PickIdx(s, keep, i + 1)
    ELSE PickIdx(s, keep, i + 1)

----------------------------------------------------------------------------
(* Source items and the adapters' normalisation into StandardizedEvent *)

Titles == {"CPI", "CPI Revised"}

\* hashlib.md5(title).hexdigest()[:8]
Md5Prefix(title) ==
    CASE title = "CPI" -> "0eb12931"
      [] title = "CPI Revised" -> "4c46f155"
      [] OTHER -> "d41d8cd9"

\* Python's built-in hash() of a str: salted per process (PYTHONHASHSEED is
\* random unless set), except that hash('') is 0 in every process.
PyHash(s, salt) ==
    IF s = "" THEN "0" ELSE "siphash(" \o s \o "," \o ToString(salt) \o ")"

\* What the outside world offers: a feed names a platform, the kinds of item
\* its source returns and the source identifiers in use.
Feeds ==
    { [platform |-> "cls", kinds |-> {"1"}, sids |-> {"A", "B"}],
      [platform |-> "cls", kinds |-> {"1", "2"}, sids |-> {"A"}],
      [platform |-> "jiuyangongshe", kinds |-> {"tl"}, sids |-> {"A", "B"}],
      [platform |-> "tonghuashun", kinds |-> {"ev"}, sids |-> {"0", "1"}],
      [platform |-> "investing", kinds |-> {"row"}, sids |-> {"A", "B"}],
      [platform |-> "eastmoney", kinds |-> {"xsap"}, sids |-> {"A"}],
      [platform |-> "eastmoney", kinds |-> {"nbjb", "gddh"}, sids |-> {"A"}],
      [platform |-> "eastmoney", kinds |-> {"jjsj"}, sids |-> {"A"}],
      [platform |-> "eastmoney", kinds |-> {"hyhy"}, sids |-> {"A", "B"}] }

\* a source item: sid is the source-native identifier (cls id, article_id,
\* index in the day's list, event_attr_id, MKT, SECURITY_CODE, FE_CODE, City),
\* title the source's name for it (title, HOLIDAY, SECURITY_NAME_ABBR, Name,
\* FE_NAME), date its (start) date, kind its type
Items(f, dates) == [sid : f.sids, date : dates, title : Titles, kind : f.kinds]

\* StandardizedEvent(...) followed by __post_init__: discovery_date defaults to
\* the day of construction, is_new to False, data_status to "ACTIVE".
\* schema tells which dataclass the record belongs to: "daily" records carry
\* is_new and discovery_date, "hist" records (historical_collector.py) do not.
StandardizedEvent(p, eid, oid, d, time, dt, title, content, category, imp, country, attr, now) ==
    [ platform |-> p, event_id |-> eid, original_id |-> oid, event_date |-> d,
      event_time |-> time, event_datetime |-> dt, title |-> title,
      content |-> content, category |-> category, importance |-> imp,
      country |-> country, attr_id |-> attr, data_status |-> "ACTIVE",
      is_new |-> FALSE, discovery_date |-> now, schema |-> "daily" ]

ClsCategory(type) ==
    CASE type = "1" -> "economic data"
      [] type = "2" -> "announcement"
      [] type = "3" -> "holiday"
      [] OTHER -> "other"

\* the event_id an adapter of daily_calendar.py builds for a source item
EventId(p, it, salt) ==
    CASE p = "cls" ->
            "cls_" \o it.sid \o "_" \o DateCompact(it.date) \o "_" \o it.kind
      [] p = "jiuyangongshe" ->
            "jygs_" \o it.sid \o "_" \o it.kind \o "_" \o DateCompact(it.date)
      [] p = "tonghuashun" ->
            "ths_" \o DateCompact(it.date) \o "_" \o it.sid \o "_" \o Md5Prefix(it.title)
      [] p = "investing" ->
            "inv_" \o it.sid \o "_" \o DateCompact(it.date) \o "083000"
      [] p = "eastmoney" /\ it.kind = "xsap" ->
            "em_xsap_" \o DateCompact(it.date) \o "_" \o PyHash(it.title, salt)
      [] p = "eastmoney" /\ it.kind = "nbjb" ->
            "em_nbjb_" \o it.sid \o "_" \o DateCompact(it.date)
      [] p = "eastmoney" /\ it.kind = "gddh" ->
            "em_gddh_" \o it.sid \o "_" \o DateCompact(it.date)
      [] p = "eastmoney" /\ it.kind = "jjsj" ->
            "em_jjsj_" \o DateCompact(it.date) \o "093000_" \o PyHash(it.title, salt)
      [] OTHER ->
            "em_hyhy_" \o it.sid

\* the StandardizedEvent an adapter builds for a source item on day now
Normalize(p, it, salt, now) ==
    CASE p = "cls" ->
            StandardizedEvent(p, EventId(p, it, salt), it.sid, it.date, "None", "None",
                it.title, "None", ClsCategory(it.kind), 3, "None", "", now)
      [] p = "jiuyangongshe" ->
            StandardizedEvent(p, EventId(p, it, salt), it.sid, it.date, "None", "None",
                it.title, "", "None", 3, "China", "", now)
      [] p = "tonghuashun" ->
            StandardizedEvent(p, EventId(p, it, salt), DateIso(it.date) \o "_" \o it.sid,
                it.date, "None", "None", it.title, "None", "None", 3, "China", "", now)
      [] p = "investing" ->
            StandardizedEvent(p, EventId(p, it, salt), "eventRowId_" \o it.sid, it.date,
                "08:30", DateIso(it.date) \o " 08:30:00", it.title, "None", "None",
                1, "US", it.sid, now)
      [] p = "eastmoney" /\ it.kind = "xsap" ->
            StandardizedEvent(p, EventId(p, it, salt),
                "xsap_" \o it.sid \o "_" \o DateIso(it.date), it.date, "None",
                DateIso(it.date) \o " 00:00:00", it.sid \o " - " \o it.title, "None",
                "market closure", 2, "China", "", now)
      [] p = "eastmoney" /\ it.kind = "nbjb" ->
            StandardizedEvent(p, EventId(p, it, salt), it.sid, it.date, "None", "None",
                it.title \o " annual report", "report", "periodic report", 4, "China",
                "", now)
      [] p = "eastmoney" /\ it.kind = "gddh" ->
            StandardizedEvent(p, EventId(p, it, salt), it.sid, it.date, "None",
                DateIso(it.date) \o " 00:00:00", it.title \o " shareholders meeting",
                "meeting", "shareholders meeting", 3, "China", "", now)
      [] p = "eastmoney" /\ it.kind = "jjsj" ->
            StandardizedEvent(p, EventId(p, it, salt),
                DateIso(it.date) \o " 09:30:00_" \o it.title, it.date, "09:30:00",
                DateIso(it.date) \o " 09:30:00", it.title, "None", "economic data", 4,
                it.sid, "", now)
      [] OTHER ->
            StandardizedEvent(p, EventId(p, it, salt), it.sid, it.date, "None", "None",
                it.title, "", "industry conference", 3, "China", "", now)

----------------------------------------------------------------------------
(* Snapshot files *)

\* json.dumps of a text field and json.loads of it: None is written as null
JsonText(v) == IF v = "None" THEN "null" ELSE v
PyText(v) == IF v = "null" THEN "None" ELSE v

\* event.to_dict() as json.dumps writes it, and the keyword arguments
\* json.loads gives back for a stored record
to_dict(e) ==
    [e EXCEPT !.event_time = JsonText(@), !.event_datetime = JsonText(@),
              !.content = JsonText(@), !.category = JsonText(@),
              !.country = JsonText(@)]

FromJson(r) ==
    [r EXCEPT !.event_time = PyText(@), !.event_datetime = PyText(@),
              !.content = PyText(@), !.category = PyText(@),
              !.country = PyText(@)]

\* a file is absent, or holds a JSON snapshot ("ok"), or text json.loads
\* rejects ("malformed"), or a snapshot with a record that has a field of a
\* type detection cannot handle ("illtyped": it loads, since the dataclass
\* takes any value, and detection raises on it, e.g. TypeError when an
\* event_date that is not a string is compared with today)
Absent == [st |-> "absent", events |-> <<>>]
Snapshot(events) ==
    [st |-> "ok", events |-> [i \in 1..Len(events) |-> to_dict(events[i])]]
Malformed == [st |-> "malformed", events |-> <<>>]
Illtyped(events) ==
    [st |-> "illtyped", events |-> [i \in 1..Len(events) |-> to_dict(events[i])]]

NoFiles == [p \in Platforms |-> Absent]
NoArchive == [p \in Platforms |-> [m \in Months |-> Absent]]
NoData == [p \in Platforms |-> <<>>]

\* a platform's file holding the list, as the rotation writes it: no file
\* for an empty list
FileOf(events) == IF events = <<>> THEN Absent ELSE Snapshot(events)

\* a loader whose __post_init__ stamps discovery_date on every record
StampedOnLoad(r, now) == [FromJson(r) EXCEPT !.schema = "daily", !.discovery_date = now]

\* StandardizedEvent(**event_data) of daily_calendar.py on a stored record: a
\* record without the is_new / discovery_date keys takes the dataclass defaults
FromDictDaily(r, now) ==
    IF r.schema = "hist"
    THEN [FromJson(r) EXCEPT !.schema = "daily", !.is_new = FALSE,
                             !.discovery_date = now]
    ELSE FromJson(r)

load_platform_data(file, now) ==
    IF file.st \in {"ok", "illtyped"}
    THEN [i \in 1..Len(file.events) |-> FromDictDaily(file.events[i], now)]
    ELSE <<>>

----------------------------------------------------------------------------
(* ChangeDetectionEngine *)

_generate_event_key(e) ==
    CASE e.platform = "cls" ->
            e.original_id \o "_" \o DateIso(e.event_date) \o "_" \o e.category
      [] e.platform = "jiuyangongshe" ->
            e.original_id \o "_" \o DateIso(e.event_date)
      [] e.platform = "tonghuashun" ->
            DateIso(e.event_date) \o "_" \o Md5Prefix(e.title)
      [] e.platform = "investing" ->
            e.attr_id \o "_" \o DateIso(e.event_date) \o "_" \o e.event_time
      [] e.platform = "eastmoney" ->
            e.original_id \o "_" \o DateIso(e.event_date)
      [] OTHER -> e.event_id

\* a comparison that overlooks the title
ContentChangedButTitle(prev_event, curr_event) ==
    \/ prev_event.event_datetime # curr_event.event_datetime
    \/ prev_event.importance # curr_event.importance
    \/ prev_event.content # curr_event.content
    \/ prev_event.country # curr_event.country

_has_content_changed(prev_event, curr_event) ==
    \/ prev_event.title # curr_event.title
    \/ prev_event.event_datetime # curr_event.event_datetime
    \/ prev_event.importance # curr_event.importance
    \/ prev_event.content # curr_event.content
    \/ prev_event.country # curr_event.country

\* {key: event for event in events}: the keys in order of first insertion,
\* each bound to the last event that has it
MapKeys(events) ==
    LET keep == {i \in 1..Len(events) : FirstIdx(events, i, _generate_event_key)}
    IN  MapSeq(PickIdx(events, keep, 1), _generate_event_key)

MapGet(events, key) ==
    LET i == CHOOSE j \in 1..Len(events) :
                 /\ _generate_event_key(events[j]) = key
                 /\ LastIdx(events, j, _generate_event_key)
    IN  events[i]

HasKey(events, key) == \E i \in 1..Len(events) : _generate_event_key(events[i]) = key

\* the events of the map, in the order of its keys
MapValues(events) == [i \in 1..Len(MapKeys(events)) |-> MapGet(events, MapKeys(events)[i])]

\* a test for new events that does not look the key up in previous
NewWithoutLookup(previous_events, curr_event, now) ==
    curr_event.event_date >= now

IsNewEvent(previous_events, curr_event, now) ==
    /\ curr_event.event_date >= now
    /\ ~HasKey(previous_events, _generate_event_key(curr_event))

IsUpdatedEvent(previous_events, curr_event, now) ==
    /\ curr_event.event_date >= now
    /\ HasKey(previous_events, _generate_event_key(curr_event))
    /\ _has_content_changed(MapGet(previous_events, _generate_event_key(curr_event)),
                            curr_event)

\* a test for cancelled events that does not look at the date
CancelledAnyDate(current_events, prev_event, now) ==
    ~HasKey(current_events, _generate_event_key(prev_event))

IsCancelledEvent(current_events, prev_event, now) ==
    /\ prev_event.event_date >= now
    /\ ~HasKey(current_events, _generate_event_key(prev_event))

_detect_platform_changes(previous_events, current_events, now) ==
    LET curr == MapValues(current_events)
        prev == MapValues(previous_events)
        isNew(e) == IsNewEvent(previous_events, e, now)
        isUpdated(e) == IsUpdatedEvent(previous_events, e, now)
        isCancelled(e) == IsCancelledEvent(current_events, e, now)
    IN  [ new_events |-> SelectSeq(curr, isNew),
          updated_events |-> SelectSeq(curr, isUpdated),
          cancelled_events |-> SelectSeq(prev, isCancelled) ]

KeySet(events) == {_generate_event_key(e) : e \in Range(events)}

\* a marking that flags every event of the list as new
MarkAllNew(e, ch, now) == [e EXCEPT !.is_new = TRUE, !.discovery_date = now]

\* _mark_changes_in_new_data on one event object
MarkEvent(e, ch, now) ==
    IF _generate_event_key(e) \in KeySet(ch.new_events)
    THEN [e EXCEPT !.is_new = TRUE, !.discovery_date = now]
    ELSE IF _generate_event_key(e) \in KeySet(ch.updated_events)
    THEN [e EXCEPT !.discovery_date = now]
    ELSE e

_mark_changes_in_new_data(current_events, ch, now) ==
    [i \in 1..Len(current_events) |-> MarkEvent(current_events[i], ch, now)]

NoChanges == [new_events |-> <<>>, updated_events |-> <<>>, cancelled_events |-> <<>>]

\* a detection that marks copies of the events and leaves new_data as collected
MarkedCopy(current_events, ch, now) == current_events

\* the marking runs only when something is new or updated; the lists of the
\* result hold the very objects of new_data, so they show the marks too
MarkedData(current_events, ch, now) ==
    IF Len(ch.new_events) > 0 \/ Len(ch.updated_events) > 0
    THEN _mark_changes_in_new_data(current_events, ch, now)
    ELSE current_events

MarkedChanges(ch, now) ==
    IF Len(ch.new_events) > 0 \/ Len(ch.updated_events) > 0
    THEN [ new_events |->
               [i \in 1..Len(ch.new_events) |-> MarkEvent(ch.new_events[i], ch, now)],
           updated_events |->
               [i \in 1..Len(ch.updated_events) |-> MarkEvent(ch.updated_events[i], ch, now)],
           cancelled_events |-> ch.cancelled_events ]
    ELSE ch

\* a detection that also gives up on a file it cannot parse
RaisesOnUnreadable(prevFile) == prevFile.st \in {"illtyped", "malformed"}

\* _detect_platform_changes raises on an ill-typed record of previous
Raises(prevFile) == prevFile.st = "illtyped"

\* the body of the per-platform try: an exception leaves the empty change sets
PlatformChanges(prevFile, current_events, now) ==
    IF Raises(prevFile) THEN NoChanges
    ELSE _detect_platform_changes(load_platform_data(prevFile, now), current_events, now)

\* a detection with one try around the loop over the platforms
DetectAllOrNothing(prevFiles, new_data, now) ==
    [p \in Platforms |->
        IF \E q \in Platforms : Raises(prevFiles[q]) THEN NoChanges
        ELSE PlatformChanges(prevFiles[p], new_data[p], now)]

\* the change sets of detect_all_changes_with_new_data, before the marking
DetectAll(prevFiles, new_data, now) ==
    [p \in Platforms |-> PlatformChanges(prevFiles[p], new_data[p], now)]

\* event.title[:50]
TitleWidth == 50
TitlePrefix(title) == IF Len(title) <= TitleWidth THEN title ELSE SubSeq(title, 1, TitleWidth)

\* lst[:n]
Take(lst, n) == IF Len(lst) <= n THEN lst ELSE SubSeq(lst, 1, n)

\* a key that ranks a missing importance above every star
SortKeyNoneFirst(e) == IF e.importance = -1 THEN 9 ELSE e.importance

\* lambda x: x.importance or 0; importance is None when the source reports no
\* star, and None is written -1
SortKey(e) == IF e.importance = -1 THEN 0 ELSE e.importance

\* list.sort(key=..., reverse=True): descending and stable
RECURSIVE InsertDesc(_, _)
InsertDesc(sorted, e) ==
    IF sorted = <<>> THEN <<e>>
    ELSE IF SortKey(Head(sorted)) >= SortKey(e)
         THEN <<Head(sorted)>> \o InsertDesc(Tail(sorted), e)
         ELSE <<e>> \o sorted

RECURSIVE SortDesc(_)
SortDesc(lst) ==
    IF lst = <<>> THEN <<>>
    ELSE InsertDesc(SortDesc(SubSeq(lst, 1, Len(lst) - 1)), lst[Len(lst)])

\* all_new_events: the new events of the platforms, in the order of the loop
RECURSIVE AllNewEvents(_, _)
AllNewEvents(all_changes, i) ==
    IF i > Len(platforms) THEN <<>>
    ELSE all_changes[platforms[i]].new_events \o AllNewEvents(all_changes, i + 1)

SampleCount == 3
TopCount == 10

Headline(e) ==
    [platform |-> e.platform, date |-> e.event_date, title |-> e.title,
     importance |-> e.importance, country |-> e.country]

_generate_change_report(all_changes, now) ==
    LET sorted == SortDesc(AllNewEvents(all_changes, 1))
        top == Take(sorted, TopCount)
    IN  [ day |-> now,
          platforms |-> [p \in Platforms |->
              LET sample == Take(all_changes[p].new_events, SampleCount)
              IN  [ new_events |-> Len(all_changes[p].new_events),
                    updated_events |-> Len(all_changes[p].updated_events),
                    cancelled_events |-> Len(all_changes[p].cancelled_events),
                    sample_new_titles |->
                        [i \in 1..Len(sample) |-> TitlePrefix(sample[i].title)] ]],
          top_new_events |-> [i \in 1..Len(top) |-> Headline(top[i])] ]

\* no report file yet
NoReport == _generate_change_report([p \in Platforms |-> NoChanges], 0)

\* detect_all_changes_with_new_data: previous is loaded from disk, new_data is
\* the freshly collected data; the report is written at the end
DetectStep ==
    /\ pc = "collected"
    /\ LET raw == DetectAll(previous, newData, today)
           marked == [p \in Platforms |-> MarkedChanges(raw[p], today)]
       IN  /\ changes' = marked
           /\ newData' = [p \in Platforms |-> MarkedData(newData[p], raw[p], today)]
           /\ report' = _generate_change_report(marked, today)
           /\ everNew' = everNew \cup UNION {KeySet(marked[p].new_events) : p \in Platforms}
    /\ pc' = "detected"
    /\ UNCHANGED <<today, seed, runDate, feed, world, current, previous, archive>>
    /\ UNCHANGED <<outage, marker, answer>>
    /\ UNCHANGED <<request, pool>>
    /\ UNCHANGED <<metadata, ret, range>>

----------------------------------------------------------------------------
(* DataLifecycleManager and the historical collector's monthly save *)

EventIdOf(e) == e.event_id

\* a merge that keeps every event
KeepAll(all_events) == all_events

\* a merge that keeps the last event of each event_id
KeepLast(all_events) ==
    PickIdx(all_events, {i \in 1..Len(all_events) : LastIdx(all_events, i, EventIdOf)}, 1)

\* the merge loop of _append_to_archive and _save_monthly_data: the first
\* event of each event_id, in order
DedupByEventId(all_events) ==
    PickIdx(all_events, {i \in 1..Len(all_events) : FirstIdx(all_events, i, EventIdOf)}, 1)

\* the existing events _append_to_archive reads back (daily_calendar.py's
\* StandardizedEvent accepts every stored record)
ExistingForAppend(file, now) ==
    IF file.st = "ok"
    THEN [i \in 1..Len(file.events) |-> FromDictDaily(file.events[i], now)]
    ELSE <<>>

_append_to_archive(file, events, now) ==
    Snapshot(DedupByEventId(ExistingForAppend(file, now) \o events))

\* the existing events _save_monthly_data reads back: StandardizedEvent of
\* historical_collector.py has no is_new / discovery_date, so **event_data
\* raises TypeError on the first record that carries them; the bare except
\* swallows it and the events read so far are kept
RECURSIVE HistPrefix(_, _)
HistPrefix(events, i) ==
    IF i > Len(events) \/ events[i].schema # "hist" THEN <<>>
    ELSE <<FromJson(events[i])>> \o HistPrefix(events, i + 1)

ExistingForMonthly(file) ==
    IF file.st = "ok" THEN HistPrefix(file.events, 1) ELSE <<>>

_save_monthly_data(file, events) ==
    Snapshot(DedupByEventId(ExistingForMonthly(file) \o events))

Archived(e) == [e EXCEPT !.data_status = "ARCHIVED"]

\* an extraction that takes the events up to target_date
UpToTargetDate(file, target_date, now) ==
    LET upTo(e) == e.event_date <= target_date
    IN  SelectSeq(load_platform_data(file, now), upTo)

\* the events of current archive_specific_date_data extracts for target_date
TargetDateEvents(file, target_date, now) ==
    LET onDate(e) == e.event_date = target_date
    IN  SelectSeq(load_platform_data(file, now), onDate)

\* archive_specific_date_data on one platform: the archive file of the month
ArchivePlatform(archFile, currFile, target_date, now) ==
    LET target_date_events == TargetDateEvents(currFile, target_date, now)
    IN  IF target_date_events # <<>>
        THEN _append_to_archive(archFile,
                 [i \in 1..Len(target_date_events) |-> Archived(target_date_events[i])],
                 now)
        ELSE archFile

\* a filter that also keeps the events of the boundary date
FromBoundaryOn(file, archive_date, now) ==
    LET later(e) == e.event_date >= archive_date
    IN  SelectSeq(load_platform_data(file, now), later)

\* the events of current rotate_future_data_only keeps
FutureEvents(file, archive_date, now) ==
    LET later(e) == e.event_date > archive_date
    IN  SelectSeq(load_platform_data(file, now), later)

\* a rotation that writes over previous without clearing the directory first
RotateWithoutClearing(prevFile, currFile, archive_date, now) ==
    IF FutureEvents(currFile, archive_date, now) # <<>>
    THEN Snapshot(FutureEvents(currFile, archive_date, now))
    ELSE prevFile

\* rotate_future_data_only on one platform: shutil.rmtree removes the file
\* previous had, and a new one is written only when some event is kept
RotatePlatform(prevFile, currFile, archive_date, now) ==
    LET cleared == Absent
    IN  IF FutureEvents(currFile, archive_date, now) # <<>>
        THEN Snapshot(FutureEvents(currFile, archive_date, now))
        ELSE cleared

----------------------------------------------------------------------------
(* The sources and the adapters *)

\* PlatformRangeDetector: cls offers 180 days from the start date, the other
\* platforms are asked up to the end of the year
ClsHorizonDays == 180
YearEnd == 12 * MonthLen
Horizon(p, start_date) == IF p = "cls" THEN start_date + ClsHorizonDays ELSE YearEnd

\* an eastmoney industry conference (hyhy) lasts two days and is dated by its
\* first day; the adapter takes it when its first or its last day is in range
InRange(p, it, start_date) ==
    LET end_date == Horizon(p, start_date)
    IN  IF p = "eastmoney" /\ it.kind = "hyhy"
        THEN \/ start_date <= it.date /\ it.date <= end_date
             \/ start_date <= it.date + 1 /\ it.date + 1 <= end_date
             \/ it.date <= start_date /\ it.date + 1 >= end_date
        ELSE start_date <= it.date /\ it.date <= end_date

\* the list an adapter of collect_all_future_data returns for the platform
AdapterOutput(p, items, salt, now) ==
    LET inRange(it) == InRange(p, it, now)
        kept == SelectSeq(items, inRange)
    IN  [i \in 1..Len(kept) |-> Normalize(p, kept[i], salt, now)]

\* every adapter catches what its request raises and returns the empty list
Collect(p, items, salt, now, down) ==
    IF p \in down THEN <<>> ELSE AdapterOutput(p, items, salt, now)

\* a collection that gives up on every platform when one request fails
CollectAllOrNothing(f, items, salt, now, down) ==
    [p \in Platforms |->
        IF p = f.platform /\ down = {} THEN AdapterOutput(p, items, salt, now) ELSE <<>>]

\* collect_all_future_data, where the source of f.platform lists the items
\* and the sources of the other platforms list nothing
collect_all_future_data(f, items, salt, now, down) ==
    [p \in Platforms |->
        IF p = f.platform THEN Collect(p, items, salt, now, down) ELSE <<>>]

\* the events historical_collector.py builds: the same event_id, its own
\* dataclass (data_status defaults to ARCHIVED, no is_new / discovery_date)
NormalizeHist(p, it, salt) ==
    [Normalize(p, it, salt, 0) EXCEPT !.data_status = "ARCHIVED", !.schema = "hist"]

\* the historical collector takes the items of the month up to yesterday
\* (cls, jiuyangongshe, tonghuashun: before yesterday)
InHistRange(p, it, month, end_date) ==
    /\ Month(it.date) = month
    /\ IF p \in {"cls", "jiuyangongshe", "tonghuashun"}
       THEN it.date < end_date
       ELSE it.date <= end_date

HistOutput(p, items, month, salt, end_date) ==
    LET inRange(it) == InHistRange(p, it, month, end_date)
        kept == SelectSeq(items, inRange)
    IN  [i \in 1..Len(kept) |-> NormalizeHist(p, kept[i], salt)]

----------------------------------------------------------------------------
(* The daily update, step by step (DailyTaskScheduler.run_daily_update) *)

\* a first-run test that asks for files with events in them
FirstRunUnlessEvents(files) ==
    Cardinality({p \in {"cls", "jiuyangongshe", "tonghuashun"} :
                    files[p].st = "ok" /\ files[p].events # <<>>}) < 2

\* _is_first_run: fewer than 2 of the three files exist in current with more
\* than 100 bytes; the header save_platform_data writes is longer than that, so
\* every file it wrote counts
_is_first_run(files) ==
    Cardinality({p \in {"cls", "jiuyangongshe", "tonghuashun"} : files[p].st = "ok"}) < 2

FirstTitle == "CPI"

\* no investing request is under way
NoRequest == [date |-> 0, nets |-> <<>>, listed |-> <<>>, attempts |-> 0,
              result |-> <<>>, done |-> FALSE]
NoPool == [start |-> 0, end |-> 0, dates |-> <<>>, listed |-> <<>>, failing |-> {},
           submitted |-> 0, task |-> <<>>, result |-> <<>>, order |-> <<>>,
           all_events |-> <<>>, returned |-> FALSE]

\* a summary that counts nothing
EmptySummary(all_data, now) ==
    [day |-> now, platforms |-> [p \in Platforms |-> 0], total_events |-> 0]

\* the sum of the counts of the platforms from the i-th on
RECURSIVE TotalFrom(_, _)
TotalFrom(all_data, i) ==
    IF i > Len(platforms) THEN 0
    ELSE Len(all_data[platforms[i]]) + TotalFrom(all_data, i + 1)

\* _generate_summary: collection_time, the event count of each platform and
\* the total
_generate_summary(all_data, now) ==
    [day |-> now, platforms |-> [p \in Platforms |-> Len(all_data[p])],
     total_events |-> TotalFrom(all_data, 1)]

\* no metadata.txt yet
NoMetadata == [day |-> 0, platforms |-> [p \in Platforms |-> 0], total_events |-> 0]

\* no entry point has returned
NoReturn == [call |-> "none", value |-> "None"]

\* a detector that has not been asked
NoRange == [cache |-> <<>>, platform |-> "", start_date |-> 0, max_date |-> 0,
            returned |-> {}]

\* no query has run
NoAnswer == [query |-> "none", from |-> 0, to |-> 0, platform |-> "", events |-> <<>>]

Init ==
    /\ today = 1
    /\ seed = 0
    /\ pc = "idle"
    /\ runDate = 0
    /\ feed \in Feeds
    /\ world \in SeqsUpTo({it \in Items(feed, Days) : it.title = FirstTitle}, MaxLen)
    /\ current = NoFiles
    /\ previous = NoFiles
    /\ archive = NoArchive
    /\ newData = NoData
    /\ changes = [p \in Platforms |-> NoChanges]
    /\ outage = {}
    /\ marker = FALSE
    /\ report = NoReport
    /\ answer = NoAnswer
    /\ request = NoRequest
    /\ pool = NoPool
    /\ metadata = NoMetadata
    /\ ret = NoReturn
    /\ range = NoRange
    /\ everNew = {}

\* midnight passes between two runs
Tick ==
    /\ pc = "idle"
    /\ today < MaxDay
    /\ today' = today + 1
    /\ UNCHANGED <<seed, pc, runDate, feed, world, current, previous, archive,
                   newData, changes>>
    /\ UNCHANGED <<outage, marker, report, answer>>
    /\ UNCHANGED <<request, pool>>
    /\ UNCHANGED <<metadata, ret, range, everNew>>

\* the source renames the item it lists first
Retitle ==
    /\ pc = "idle"
    /\ Len(world) > 0
    /\ world[1].title = FirstTitle
    /\ \E t \in Titles \ {FirstTitle} : world' = [world EXCEPT ![1].title = t]
    /\ UNCHANGED <<today, seed, pc, runDate, feed, current, previous, archive,
                   newData, changes>>
    /\ UNCHANGED <<outage, marker, report, answer>>
    /\ UNCHANGED <<request, pool>>
    /\ UNCHANGED <<metadata, ret, range, everNew>>

\* step 1: the run archives yesterday's events of current
ArchiveStep ==
    /\ pc = "idle"
    /\ runDate' = today - 1
    /\ archive' = [p \in Platforms |-> [m \in Months |->
                      IF m = Month(today - 1)
                      THEN ArchivePlatform(archive[p][m], current[p], today - 1, today)
                      ELSE archive[p][m]]]
    /\ pc' = "archived"
    /\ UNCHANGED <<today, seed, feed, world, current, previous, newData, changes>>
    /\ UNCHANGED <<outage, marker, report, answer>>
    /\ UNCHANGED <<request, pool>>
    /\ UNCHANGED <<metadata, ret, range, everNew>>

\* step 2: previous is rebuilt from current
RotateStep ==
    /\ pc = "archived"
    /\ previous' = [p \in Platforms |-> RotatePlatform(previous[p], current[p], runDate, today)]
    /\ pc' = "rotated"
    /\ UNCHANGED <<today, seed, runDate, feed, world, current, archive, newData,
                   changes>>
    /\ UNCHANGED <<outage, marker, report, answer>>
    /\ UNCHANGED <<request, pool>>
    /\ UNCHANGED <<metadata, ret, range, everNew>>

\* step 3: collect_all_future_data; the salt of the process shows here, where
\* the adapters first hash a string
CollectStep ==
    /\ pc = "rotated"
    /\ \E salt \in Seeds :
        /\ seed' = salt
        /\ newData' = collect_all_future_data(feed, world, salt, today, outage)
    /\ pc' = "collected"
    /\ UNCHANGED <<today, runDate, feed, world, current, previous, archive, changes>>
    /\ UNCHANGED <<outage, marker, report, answer>>
    /\ UNCHANGED <<request, pool>>
    /\ UNCHANGED <<metadata, ret, range, everNew>>

\* step 5: save_all_data writes every platform's list; the process ends
PersistStep ==
    /\ pc = "detected"
    /\ current' = [p \in Platforms |-> Snapshot(newData[p])]
    /\ newData' = NoData
    /\ changes' = [p \in Platforms |-> NoChanges]
    /\ seed' = 0
    /\ runDate' = 0
    /\ pc' = "idle"
    /\ UNCHANGED <<today, feed, world, previous, archive>>
    /\ UNCHANGED <<outage, marker, report, answer>>
    /\ UNCHANGED <<request, pool>>
    /\ metadata' = _generate_summary(newData, today)
    /\ ret' = [call |-> "run_daily_update", value |-> "True"]
    /\ UNCHANGED <<range, everNew>>

\* historical_collector.py saves a month of one platform (_save_monthly_data
\* is called with a non-empty list only)
HistSave ==
    /\ pc = "idle"
    /\ \E m \in 1..Month(today) : \E salt \in Seeds :
        LET p == feed.platform
            events == HistOutput(p, world, m, salt, today - 1)
        IN  /\ events # <<>>
            /\ archive' = [archive EXCEPT ![p][m] = _save_monthly_data(archive[p][m], events)]
    /\ UNCHANGED <<today, seed, pc, runDate, feed, world, current, previous,
                   newData, changes>>
    /\ UNCHANGED <<outage, marker, report, answer>>
    /\ UNCHANGED <<request, pool>>
    /\ UNCHANGED <<metadata, ret, range, everNew>>

\* run_first_time: only in the first-run state; collection, save, marker
FirstRunStep ==
    /\ pc = "idle"
    /\ _is_first_run(current)
    /\ \E salt \in Seeds :
        LET future_data == collect_all_future_data(feed, world, salt, today, outage)
        IN  /\ current' = [p \in Platforms |-> Snapshot(future_data[p])]
            /\ metadata' = _generate_summary(future_data, today)
    /\ marker' = TRUE
    /\ ret' = [call |-> "run_first_time", value |-> "True"]
    /\ UNCHANGED <<today, seed, pc, runDate, feed, world, previous, archive,
                   newData, changes>>
    /\ UNCHANGED <<outage, report, answer>>
    /\ UNCHANGED <<request, pool, range, everNew>>

----------------------------------------------------------------------------
(* Detection on arbitrary previous and current lists of one platform *)

DetectDates == {DetectToday - 1, DetectToday}

InitDetect ==
    /\ today = DetectToday
    /\ seed = 0
    /\ pc = "collected"
    /\ runDate = 0
    /\ feed \in Feeds
    /\ world = <<>>
    /\ current = NoFiles
    /\ archive = NoArchive
    /\ \E lp \in 0..MaxEvents :
         \E P \in [1..lp -> Items(feed, DetectDates)] :
           \E C \in SeqsUpTo(Items(feed, DetectDates), MaxEvents - lp) :
             /\ previous = [NoFiles EXCEPT ![feed.platform] =
                    FileOf([i \in 1..lp |->
                        Normalize(feed.platform, P[i], seed, DetectToday - 1)])]
             /\ newData = [NoData EXCEPT ![feed.platform] =
                    [i \in 1..Len(C) |->
                        Normalize(feed.platform, C[i], seed, DetectToday)]]
    /\ changes = [p \in Platforms |-> NoChanges]
    /\ outage = {}
    /\ marker = FALSE
    /\ report = NoReport
    /\ answer = NoAnswer
    /\ request = NoRequest
    /\ pool = NoPool
    /\ metadata = NoMetadata
    /\ ret = NoReturn
    /\ range = NoRange
    /\ everNew = {}

NextDetect == DetectStep

SpecDetect == InitDetect /\ [][NextDetect]_vars

----------------------------------------------------------------------------
(* Claims on detection *)

Detected == pc = "detected"

PrevOf(p) == load_platform_data(previous[p], today)

\* the key is in previous with the same content as in current
UnchangedKey(p, k) ==
    /\ HasKey(PrevOf(p), k)
    /\ HasKey(newData[p], k)
    /\ ~_has_content_changed(MapGet(PrevOf(p), k), MapGet(newData[p], k))

Count(b) == IF b THEN 1 ELSE 0

NoRepeatedKey(events) == Cardinality(KeySet(events)) = Len(events)

CurrentKeysClassifiedOnce(p) ==
    \A e \in Range(newData[p]) :
        LET k == _generate_event_key(e)
        IN  IF e.event_date >= today
            THEN Count(k \in KeySet(changes[p].new_events))
                 + Count(k \in KeySet(changes[p].updated_events))
                 + Count(UnchangedKey(p, k)) = 1
            ELSE /\ k \notin KeySet(changes[p].new_events)
                 /\ k \notin KeySet(changes[p].updated_events)

PreviousKeysAccounted(p) ==
    /\ \A e \in Range(PrevOf(p)) :
          e.event_date >= today =>
              \/ _generate_event_key(e) \in KeySet(changes[p].cancelled_events)
              \/ HasKey(newData[p], _generate_event_key(e))
    /\ KeySet(changes[p].cancelled_events) \subseteq KeySet(PrevOf(p))
    /\ KeySet(changes[p].new_events) \cup KeySet(changes[p].updated_events)
          \subseteq KeySet(newData[p])

ChangeSetsDisjoint(p) ==
    /\ KeySet(changes[p].new_events) \cap KeySet(changes[p].updated_events) = {}
    /\ KeySet(changes[p].new_events) \cap KeySet(changes[p].cancelled_events) = {}
    /\ KeySet(changes[p].updated_events) \cap KeySet(changes[p].cancelled_events) = {}
    /\ NoRepeatedKey(changes[p].new_events)
    /\ NoRepeatedKey(changes[p].updated_events)
    /\ NoRepeatedKey(changes[p].cancelled_events)

\* C1: diff completeness. After a detection, for every platform: each key of
\* the current list with a today-or-future date is in exactly one of new,
\* updated, unchanged; each today-or-future key of the previous list is
\* cancelled or still a key of current; new, updated and cancelled are
\* pairwise disjoint by key and hold no key twice.
C1_DiffComplete ==
    Detected =>
        \A p \in Platforms :
            /\ CurrentKeysClassifiedOnce(p)
            /\ PreviousKeysAccounted(p)
            /\ ChangeSetsDisjoint(p)

\* a detection whose result has an updated and a cancelled key at once, next
\* to a key of previous that is unchanged in current or dated before today
C1_Witness ==
    /\ Detected
    /\ \E p \in Platforms :
        /\ Len(changes[p].cancelled_events) > 0
        /\ Len(changes[p].updated_events) > 0
        /\ Len(PrevOf(p)) + Len(newData[p]) = MaxEvents

\* C2: past-date exclusion. An event of previous dated before the day of
\* detection and missing from current is not reported as cancelled.
C2_PastNotCancelled ==
    Detected =>
        \A p \in Platforms : \A e \in Range(PrevOf(p)) :
            (e.event_date < today /\ ~HasKey(newData[p], _generate_event_key(e)))
                => /\ e \notin Range(changes[p].cancelled_events)
                   /\ _generate_event_key(e) \notin KeySet(changes[p].cancelled_events)

\* a detection with a past-dated previous event missing from current, next to
\* a future-dated one that is reported cancelled
C2_Witness ==
    /\ Detected
    /\ \E p \in Platforms :
        /\ \E e \in Range(PrevOf(p)) :
              e.event_date < today /\ ~HasKey(newData[p], _generate_event_key(e))
        /\ Len(changes[p].cancelled_events) > 0

\* the event without the annotations detection and loading set
Unmarked(e) == [e EXCEPT !.is_new = FALSE, !.discovery_date = 0]

\* previous holds the event of source item it alone, current the event of
\* the same item under another title alone
TitleChangeOnly(p, it) ==
    /\ Len(PrevOf(p)) = 1
    /\ Len(newData[p]) = 1
    /\ it.date >= today
    /\ \E s1, s2 \in Seeds : \E t \in Titles \ {it.title} :
        /\ Unmarked(PrevOf(p)[1]) = Unmarked(Normalize(p, it, s1, 0))
        /\ Unmarked(newData[p][1]) = Unmarked(Normalize(p, [it EXCEPT !.title = t], s2, 0))

ReportedUpdated(p) ==
    /\ changes[p].updated_events = <<newData[p][1]>>
    /\ changes[p].new_events = <<>>
    /\ changes[p].cancelled_events = <<>>

ReportedNewAndCancelled(p) ==
    /\ changes[p].updated_events = <<>>
    /\ changes[p].new_events = <<newData[p][1]>>
    /\ changes[p].cancelled_events = <<PrevOf(p)[1]>>

\* the identity key of the item's event is built from its title: tonghuashun
\* keys hold md5(title)[:8], eastmoney economic data (jjsj) has the Name in
\* its original_id
TitleKeyed(p, it) == p = "tonghuashun" \/ (p = "eastmoney" /\ it.kind = "jjsj")

\* C3 as stated: on every platform a change of the title alone is reported
\* as updated = [the event], new = [], cancelled = [].
C3_TitleChangeUpdated ==
    Detected =>
        \A p \in Platforms : \A it \in Items(feed, Days) :
            (p = feed.platform /\ TitleChangeOnly(p, it)) => ReportedUpdated(p)

\* C3 amended: a change of the title alone is reported as updated = [the
\* event], new = [], cancelled = [] for cls, jiuyangongshe, investing and the
\* eastmoney events whose original_id does not hold the title; for tonghuashun
\* and eastmoney economic data it is reported as new = [the current event],
\* cancelled = [the previous event], updated = [].
C3_TitleChangeByKey ==
    Detected =>
        \A p \in Platforms : \A it \in Items(feed, Days) :
            (p = feed.platform /\ TitleChangeOnly(p, it)) =>
                IF TitleKeyed(p, it) THEN ReportedNewAndCancelled(p)
                ELSE ReportedUpdated(p)

\* a title-only change detected on an eastmoney event that is not title-keyed
C3_Witness ==
    /\ Detected
    /\ feed.platform = "eastmoney"
    /\ \E it \in Items(feed, Days) :
          TitleChangeOnly(feed.platform, it) /\ ~TitleKeyed(feed.platform, it)
    /\ ReportedUpdated(feed.platform)

----------------------------------------------------------------------------
(* The system: daily updates, the historical collector, the passing days *)

Next ==
    \/ Tick
    \/ Retitle
    \/ ArchiveStep
    \/ RotateStep
    \/ CollectStep
    \/ DetectStep
    \/ PersistStep
    \/ HistSave

Spec == Init /\ [][Next]_vars

----------------------------------------------------------------------------
(* Claims on the data lifecycle *)

EventIds(events) == {e.event_id : e \in Range(events)}

NoRepeatedId(events) == Cardinality(EventIds(events)) = Len(events)

\* the events dated after D, in order
RECURSIVE Later(_, _)
Later(events, D) ==
    IF events = <<>> THEN <<>>
    ELSE (IF Head(events).event_date > D THEN <<Head(events)>> ELSE <<>>)
             \o Later(Tail(events), D)

\* the events whose event_id is not in seen and not earlier in the list, in order
RECURSIVE FirstWins(_, _)
FirstWins(events, seen) ==
    IF events = <<>> THEN <<>>
    ELSE IF Head(events).event_id \in seen THEN FirstWins(Tail(events), seen)
    ELSE <<Head(events)>> \o FirstWins(Tail(events), seen \cup {Head(events).event_id})

\* the stored records of current dated D, marked as archived, in order
RECURSIVE Incoming(_, _)
Incoming(events, D) ==
    IF events = <<>> THEN <<>>
    ELSE (IF Head(events).event_date = D
          THEN <<[Head(events) EXCEPT !.data_status = "ARCHIVED"]>> ELSE <<>>)
             \o Incoming(Tail(events), D)

\* the archive file of the platform for the month of day D; the days before
\* day 1 belong to an earlier year, of which no file exists
PartitionOf(arch, p, D) == IF Month(D) \in Months THEN arch[p][Month(D)] ELSE Absent

\* the archive step of a daily update is being taken
ArchiveStepTaken == pc = "idle" /\ pc' = "archived"

\* C4: rotation exclusivity. After the rotate step with boundary date D, and
\* until the run ends, no platform's previous file holds an event dated D or
\* earlier.
C4_RotationExclusive ==
    pc \in {"rotated", "collected", "detected"} =>
        \A p \in Platforms : \A e \in Range(previous[p].events) :
            e.event_date > runDate

\* a rotation that kept some events of a current file and dropped others
C4_Witness ==
    /\ pc = "rotated"
    /\ \E p \in Platforms :
        /\ \E e \in Range(current[p].events) : e.event_date <= runDate
        /\ previous[p].st = "ok"

\* C5: archive dedup idempotence. After the archive step for date D, running
\* it for D again leaves every platform's archive file as it is, and no
\* archive file holds two events of one event_id.
C5_ArchiveIdempotent ==
    pc = "archived" =>
        \A p \in Platforms :
            /\ ArchivePlatform(PartitionOf(archive, p, runDate), current[p], runDate, today)
                   = PartitionOf(archive, p, runDate)
            /\ \A m \in Months : NoRepeatedId(archive[p][m].events)

\* an archive step whose incoming events were two of one event_id, merged
\* into one record
C5_Witness ==
    /\ pc = "archived"
    /\ \E p \in Platforms :
        /\ Len(TargetDateEvents(current[p], runDate, today)) = 2
        /\ Len(PartitionOf(archive, p, runDate).events) = 1

\* C6 as stated: an archive file is append-only. No step (archive-step merge
\* or historical monthly save) removes an event_id from an archive file.
C6_ArchiveAppendOnly ==
    [][\A p \in Platforms : \A m \in Months :
          EventIds(archive[p][m].events) \subseteq EventIds(archive'[p][m].events)]_vars

\* two records built from the same source item: equal but for the event_id and
\* the annotations of detection and archiving
SameSource(a, b) ==
    [a EXCEPT !.event_id = "", !.is_new = FALSE, !.discovery_date = 0,
              !.data_status = "ACTIVE"]
  = [b EXCEPT !.event_id = "", !.is_new = FALSE, !.discovery_date = 0,
              !.data_status = "ACTIVE"]

\* C7 as stated: event_id is deterministic. The event a run collects from a
\* source item has the event_id an earlier run gave the event of the same
\* item, as stored in current.
C7_EventIdDeterministic ==
    pc = "collected" =>
        \A p \in Platforms :
            \A e \in Range(newData[p]) :
                \A r \in Range(load_platform_data(current[p], today)) :
                    SameSource(e, r) => e.event_id = r.event_id

\* C8: the archive step for date D = yesterday leaves current as it is and
\* every archive file of another month as it is; in the file of month(D):
\* every event of current dated D has its event_id there (none omitted),
\* every record that was not there before is an event of current dated D with
\* data_status ARCHIVED (no others), no event_id is lost, and the file is not
\* touched when current has no event dated D.
C8_ArchiveExact ==
    [][ArchiveStepTaken =>
          \A p \in Platforms :
              LET D == today - 1
                  old == PartitionOf(archive, p, D)
                  new == PartitionOf(archive', p, D)
                  incoming == Incoming(current[p].events, D)
              IN  /\ current'[p] = current[p]
                  /\ \A m \in Months \ {Month(D)} : archive'[p][m] = archive[p][m]
                  /\ EventIds(incoming) \subseteq EventIds(new.events)
                  /\ \A r \in Range(new.events) :
                         r.event_id \in EventIds(old.events) \/ r \in Range(incoming)
                  /\ EventIds(old.events) \subseteq EventIds(new.events)
                  /\ incoming = <<>> => new = old]_vars

\* an archive step across a month boundary that took some events of a current
\* file and left others
C8_Witness ==
    /\ pc = "archived"
    /\ Month(runDate) # Month(today)
    /\ \E p \in Platforms :
        /\ \E e \in Range(current[p].events) : e.event_date = runDate
        /\ \E e \in Range(current[p].events) : e.event_date # runDate
        /\ PartitionOf(archive, p, runDate).st = "ok"

\* C9: the rotate step with boundary D rebuilds previous. After it, every
\* platform's previous file holds exactly the events of current dated after
\* D, in the order of current, and there is no previous file for a platform
\* with no such event.
C9_RotateRebuilds ==
    pc = "rotated" =>
        \A p \in Platforms :
            /\ previous[p].events = Later(current[p].events, runDate)
            /\ previous[p].st = "ok" <=> Later(current[p].events, runDate) # <<>>

\* a rotation that left no previous file for a platform whose current file
\* holds events, all dated D or earlier
C9_Witness ==
    /\ pc = "rotated"
    /\ \E p \in Platforms :
        /\ current[p].events # <<>>
        /\ Later(current[p].events, runDate) = <<>>
        /\ previous[p] = Absent

\* C10 as stated: the append-merge writes the archived records followed by
\* the incoming events, first occurrence of each event_id winning, the
\* archived records unchanged.
C10_FirstWinsUnchanged ==
    [][ArchiveStepTaken =>
          \A p \in Platforms :
              LET D == today - 1
                  incoming == Incoming(current[p].events, D)
              IN  incoming # <<>> =>
                      PartitionOf(archive', p, D).events
                          = FirstWins(PartitionOf(archive, p, D).events \o incoming, {})]_vars

\* an archived record as the daily update writes it back: a record the
\* historical collector wrote gains is_new = false and discovery_date = the
\* day of the merge, every other field is kept
WrittenBack(r, now) ==
    IF r.schema = "hist"
    THEN [r EXCEPT !.schema = "daily", !.is_new = FALSE, !.discovery_date = now]
    ELSE r

\* C10 amended: the append-merge writes the archived records followed by the
\* incoming events, first occurrence of each event_id winning and order
\* preserved; an archived record is kept and the incoming event of its
\* event_id discarded, and the record is written back with its fields
\* unchanged, except that a record without is_new and discovery_date (one the
\* historical collector wrote) gains is_new = false and discovery_date = the
\* day of the merge.
C10_FirstWinsWrittenBack ==
    [][ArchiveStepTaken =>
          \A p \in Platforms :
              LET D == today - 1
                  old == PartitionOf(archive, p, D).events
                  incoming == Incoming(current[p].events, D)
              IN  incoming # <<>> =>
                      PartitionOf(archive', p, D).events
                          = FirstWins([i \in 1..Len(old) |-> WrittenBack(old[i], today)]
                                          \o incoming, {})]_vars

\* an archive step that met an archived record of an incoming event's
\* event_id, the two differing, and kept the archived one
C10_Witness ==
    /\ pc = "archived"
    /\ \E p \in Platforms :
        \E e \in Range(Incoming(current[p].events, runDate)) :
            \E r \in Range(PartitionOf(archive, p, runDate).events) :
                /\ r.event_id = e.event_id
                /\ r # e
                /\ Len(PartitionOf(archive, p, runDate).events) = 2

----------------------------------------------------------------------------
\* C11: the list save_all_data writes for a platform is the list every later
\* load_platform_data of that file returns, field for field, whatever the
\* file held before the save
C11_SaveLoadRoundTrip ==
    [][pc = "detected" /\ pc' = "idle" =>
          \A p \in Platforms : \A d \in Days :
              load_platform_data(current'[p], d) = newData[p]]_vars

\* a save is about to replace a non-empty file by a different non-empty list
\* that holds a None field
C11_Witness ==
    /\ pc = "detected"
    /\ \E p \in Platforms :
        /\ current[p].events # <<>>
        /\ newData[p] # <<>>
        /\ load_platform_data(current[p], today) # newData[p]
        /\ \E e \in Range(newData[p]) : e.content = "None" \/ e.event_time = "None"

----------------------------------------------------------------------------
\* the marks detection leaves on the collected list of platform p, with
\* InNew(e) and InUpdated(e) telling what counts as belonging to a change set
Marked(p, InNew(_), InUpdated(_)) ==
    /\ Len(newData'[p]) = Len(newData[p])
    /\ \A i \in 1..Len(newData[p]) :
        LET before == newData[p][i]
            after == newData'[p][i]
        IN  /\ after.is_new <=> InNew(after)
            /\ InNew(after) => after.discovery_date = today
            /\ InUpdated(after) => after.discovery_date = today /\ ~after.is_new
            /\ ~InNew(after) /\ ~InUpdated(after) => after = before

\* C12 as stated: after detection an event of the collected list has
\* is_new = true exactly when it is a member of the platform's new set (and
\* then discovery_date = today), a member of the updated set has
\* discovery_date = today and is_new = false, every other event is unmodified.
C12_MarkedMembers ==
    [][pc = "collected" /\ pc' = "detected" =>
          \A p \in Platforms :
              LET InNew(e) == e \in Range(changes'[p].new_events)
                  InUpdated(e) == e \in Range(changes'[p].updated_events)
              IN  Marked(p, InNew, InUpdated)]_vars

\* C12, by change key: after detection an event of the collected list has
\* is_new = true exactly when its change key is the key of a member of the
\* platform's new set (and then discovery_date = today), an event with the key
\* of a member of the updated set has discovery_date = today and
\* is_new = false, every other event is unmodified.
C12_MarkedByKey ==
    [][pc = "collected" /\ pc' = "detected" =>
          \A p \in Platforms :
              LET InNew(e) == _generate_event_key(e) \in KeySet(changes'[p].new_events)
                  InUpdated(e) ==
                      _generate_event_key(e) \in KeySet(changes'[p].updated_events)
              IN  Marked(p, InNew, InUpdated)]_vars

\* detection marked two different events of one key as new, one of them not in
\* the new set, and left another event of the list unmarked
C12_Witness ==
    /\ pc = "detected"
    /\ \E p \in Platforms :
        /\ \E e \in Range(newData[p]) :
            /\ e.is_new
            /\ e.discovery_date = today
            /\ e \notin Range(changes[p].new_events)
        /\ \E e \in Range(newData[p]) : ~e.is_new

----------------------------------------------------------------------------
\* the same event but for the annotations of detection
SameEvent(a, b) ==
    [a EXCEPT !.is_new = FALSE, !.discovery_date = 0]
  = [b EXCEPT !.is_new = FALSE, !.discovery_date = 0]

\* C13 as stated: discovery_date is the date the event was first observed or
\* last updated. An event the update writes to current, which current already
\* held with the same fields from the cycle before, keeps the discovery_date
\* it had there.
C13_DiscoveryDateKept ==
    [][pc = "detected" /\ pc' = "idle" =>
          \A p \in Platforms :
              \A r \in Range(load_platform_data(current[p], today)) :
                  \A e \in Range(load_platform_data(current'[p], today)) :
                      SameEvent(r, e) => e.discovery_date = r.discovery_date]_vars

----------------------------------------------------------------------------
\* C14 as stated: in the first-run state no entry point archives, rotates or
\* detects. While current is in the first-run state, no run is past its
\* archive, rotate or detect step.
C14_FirstRunSkipsPipeline ==
    _is_first_run(current) => pc \notin {"archived", "rotated", "detected"}

----------------------------------------------------------------------------
(* Runs on a store in any condition, with sources that may be out of reach *)

\* the feed that stands for a platform other than the one of the behaviour
FeedOf(q) == CHOOSE f \in Feeds : f.platform = q

\* an event that yesterday's run stored for the platform, dated today
Stored(f) ==
    LET it == CHOOSE x \in Items(f, {DetectToday}) : x.title = FirstTitle
    IN  Normalize(f.platform, it, 0, DetectToday - 1)

\* what previous/<platform>.txt may hold
PrevChoices(f) ==
    {Absent, Malformed, Illtyped(<<Stored(f)>>), Snapshot(<<Stored(f)>>)}

InitFault ==
    /\ today = DetectToday
    /\ seed = 0
    /\ pc \in {"idle", "rotated"}
    /\ runDate = DetectToday - 1
    /\ feed \in Feeds
    /\ world \in SeqsUpTo(Items(feed, {DetectToday}), MaxLen)
    /\ current = NoFiles
    /\ archive = NoArchive
    /\ \E q \in Platforms \ {feed.platform} :
         \E own \in PrevChoices(feed) : \E other \in PrevChoices(FeedOf(q)) :
            previous = [NoFiles EXCEPT ![feed.platform] = own, ![q] = other]
    /\ newData = NoData
    /\ changes = [p \in Platforms |-> NoChanges]
    /\ outage \in {{}, {feed.platform}, {"investing"}}
    /\ marker = FALSE
    /\ report = NoReport
    /\ answer = NoAnswer
    /\ request = NoRequest
    /\ pool = NoPool
    /\ metadata = NoMetadata
    /\ ret = NoReturn
    /\ range = NoRange
    /\ everNew = {}

NextFault == FirstRunStep \/ CollectStep \/ DetectStep \/ PersistStep

SpecFault == InitFault /\ [][NextFault]_vars

----------------------------------------------------------------------------
(* Claims on failures *)

\* the store with every file detection fails on taken away
Healed(files) == [p \in Platforms |-> IF Raises(files[p]) THEN Absent ELSE files[p]]

\* C15: a detection failure for one platform does not abort detection for the
\* others: the failing platform reports empty new, updated and cancelled sets,
\* and every other platform's change sets are those detection returns on the
\* store without the failing file.
C15_DetectionFailureIsolated ==
    [][pc = "collected" /\ pc' = "detected" =>
          \A p \in Platforms :
              IF Raises(previous[p])
              THEN changes'[p] = NoChanges
              ELSE changes'[p] =
                      MarkedChanges(DetectAll(Healed(previous), newData, today)[p], today)]_vars

\* detection failed for a platform that collected events, and another platform
\* reports changes
C15_Witness ==
    /\ pc = "detected"
    /\ \E p \in Platforms : \E q \in Platforms \ {p} :
        /\ Raises(previous[p])
        /\ newData[p] # <<>>
        /\ changes[p] = NoChanges
        /\ changes[q] # NoChanges

\* C16: a missing or malformed snapshot loads as the empty list and the load
\* leaves the file as it is; when previous of a platform is malformed,
\* detection marks every today-or-future event of the collected list as new,
\* with its key in the new set, and reports no updated and no cancelled event.
C16_UnreadableLoadsEmpty ==
    [][pc = "collected" /\ pc' = "detected" =>
          /\ previous' = previous
          /\ \A p \in Platforms :
              /\ previous[p].st \in {"absent", "malformed"} =>
                     \A d \in Days : load_platform_data(previous[p], d) = <<>>
              /\ previous[p].st = "malformed" =>
                     /\ changes'[p].updated_events = <<>>
                     /\ changes'[p].cancelled_events = <<>>
                     /\ Range(changes'[p].new_events) \subseteq Range(newData'[p])
                     /\ \A e \in Range(newData'[p]) :
                            e.event_date >= today =>
                                /\ e.is_new
                                /\ _generate_event_key(e) \in KeySet(changes'[p].new_events)]_vars

\* detection ran on a malformed previous file and two collected events
C16_Witness ==
    /\ pc = "detected"
    /\ \E p \in Platforms :
        /\ previous[p].st = "malformed"
        /\ Len(newData[p]) = 2
        /\ \A e \in Range(newData[p]) : e.is_new
        /\ changes[p].new_events # <<>>

\* the platforms a stage of the run failed on
Failing == outage \cup {p \in Platforms : Raises(previous[p])}

\* the run goes on after a failure: the lists of the other platforms are
\* collected, their changes detected, and every list is saved
RunGoesOn ==
    /\ pc = "rotated" /\ pc' = "collected" =>
          \A p \in Platforms \ outage :
              newData'[p] = IF p = feed.platform
                            THEN AdapterOutput(p, world, seed', today) ELSE <<>>
    /\ pc = "collected" /\ pc' = "detected" =>
          \A p \in Platforms \ Failing :
              changes'[p] = MarkedChanges(DetectAll(Healed(previous), newData, today)[p], today)
    /\ pc = "detected" /\ pc' = "idle" =>
          \A p \in Platforms : current'[p] = Snapshot(newData[p])
    /\ ~marker /\ marker' =>
          \E salt \in Seeds : \A p \in Platforms \ outage :
              current'[p] = Snapshot(IF p = feed.platform
                                     THEN AdapterOutput(p, world, salt, today) ELSE <<>>)

\* C17 as stated: a failure of one platform's collection or detection does
\* not abort the daily cycle or the first run: the other platforms are
\* collected, detected and persisted, and the failing platform is recorded
\* with no data.
C17_FailingPlatformNoData ==
    [][/\ RunGoesOn
       /\ pc = "detected" /\ pc' = "idle" =>
             \A p \in Failing : current'[p].events = <<>>
       /\ ~marker /\ marker' =>
             \A p \in outage : current'[p].events = <<>>]_vars

\* C17, amended: the run is not aborted and the other platforms are collected,
\* detected and persisted; a platform whose collection failed is persisted
\* with the empty list; a platform whose detection failed reports empty change
\* sets and its collected list is persisted without marks.
C17_FailureKeepsRunGoing ==
    [][/\ RunGoesOn
       /\ pc = "collected" /\ pc' = "detected" =>
             \A p \in Platforms :
                 Raises(previous[p]) => changes'[p] = NoChanges /\ newData'[p] = newData[p]
       /\ pc = "detected" /\ pc' = "idle" =>
             /\ \A p \in outage : current'[p].events = <<>>
             /\ \A p \in Platforms :
                    Raises(previous[p]) =>
                        /\ current'[p] = Snapshot(newData[p])
                        /\ \A e \in Range(newData[p]) : ~e.is_new
       /\ ~marker /\ marker' =>
             \A p \in outage : current'[p].events = <<>>]_vars

\* a run saved its lists although the source with the items was out of reach,
\* or although detection failed on a platform that had collected events
C17_Witness ==
    /\ pc = "idle"
    /\ \A p \in Platforms : current[p].st = "ok"
    /\ \/ /\ feed.platform \in outage
          /\ world # <<>>
          /\ marker
       \/ /\ Raises(previous[feed.platform])
          /\ current[feed.platform].events # <<>>
          /\ report.day = today

----------------------------------------------------------------------------
\* C18 as stated: every event of the current snapshot a collection run started
\* on day T persists has T <= event_date <= the horizon of its platform.
C18_CurrentWithinHorizon ==
    [][pc = "detected" /\ pc' = "idle" =>
          \A p \in Platforms : \A e \in Range(current'[p].events) :
              today <= e.event_date /\ e.event_date <= Horizon(p, today)]_vars

----------------------------------------------------------------------------
(* Queries on the current snapshot *)

\* the events of the platforms platforms[i..] that pass the test, in the order
\* of the loop over the platforms
RECURSIVE Gather(_, _, _, _)
Gather(files, now, keep, i) ==
    IF i > Len(platforms) THEN <<>>
    ELSE LET events == load_platform_data(files[platforms[i]], now)
         IN  PickIdx(events, {j \in 1..Len(events) : events[j] \in keep}, 1)
                 \o Gather(files, now, keep, i + 1)

AllLoaded(files, now) ==
    UNION {Range(load_platform_data(files[p], now)) : p \in Platforms}

\* x.event_time or "00:00:00"
TimeKey(e) == IF e.event_time \in {"None", ""} THEN "00:00:00" ELSE e.event_time

\* the order of the time strings the adapters produce
TimeOrder == <<"00:00:00", "08:30", "09:30:00">>
TimeRank(e) == CHOOSE i \in 1..Len(TimeOrder) : TimeOrder[i] = TimeKey(e)

\* (a.event_date, time key of a) <= (b.event_date, time key of b)
KeyLeq(a, b) ==
    \/ a.event_date < b.event_date
    \/ a.event_date = b.event_date /\ TimeRank(a) <= TimeRank(b)

\* list.sort(key=...): ascending and stable
RECURSIVE InsertAsc(_, _)
InsertAsc(sorted, e) ==
    IF sorted = <<>> THEN <<e>>
    ELSE IF KeyLeq(Head(sorted), e)
         THEN <<Head(sorted)>> \o InsertAsc(Tail(sorted), e)
         ELSE <<e>> \o sorted

RECURSIVE SortAsc(_)
SortAsc(lst) ==
    IF lst = <<>> THEN <<>>
    ELSE InsertAsc(SortAsc(SubSeq(lst, 1, Len(lst) - 1)), lst[Len(lst)])

get_new_events_by_date(files, discovery_date, now) ==
    Gather(files, now,
           {e \in AllLoaded(files, now) : e.is_new /\ e.discovery_date = discovery_date}, 1)

get_events_by_date(files, date, now) ==
    Gather(files, now, {e \in AllLoaded(files, now) : e.event_date = date}, 1)

get_events_by_date_range(files, start_date, end_date, now) ==
    SortAsc(Gather(files, now,
                   {e \in AllLoaded(files, now) :
                        start_date <= e.event_date /\ e.event_date <= end_date}, 1))

get_events_by_platform(files, platform, now) == load_platform_data(files[platform], now)

QueryDays == {DetectToday, DetectToday + 1}

QueryNew ==
    /\ pc = "idle"
    /\ \E d \in QueryDays :
        answer' = [query |-> "new", from |-> d, to |-> d, platform |-> "",
                   events |-> get_new_events_by_date(current, d, today)]
    /\ UNCHANGED <<today, seed, pc, runDate, feed, world, current, previous, archive,
                   newData, changes, outage, marker, report>>
    /\ UNCHANGED <<request, pool>>
    /\ UNCHANGED <<metadata, ret, range, everNew>>

QueryDate ==
    /\ pc = "idle"
    /\ \E d \in QueryDays :
        answer' = [query |-> "date", from |-> d, to |-> d, platform |-> "",
                   events |-> get_events_by_date(current, d, today)]
    /\ UNCHANGED <<today, seed, pc, runDate, feed, world, current, previous, archive,
                   newData, changes, outage, marker, report>>
    /\ UNCHANGED <<request, pool>>
    /\ UNCHANGED <<metadata, ret, range, everNew>>

QueryRange ==
    /\ pc = "idle"
    /\ \E s \in QueryDays : \E e \in QueryDays :
        /\ s <= e
        /\ answer' = [query |-> "range", from |-> s, to |-> e, platform |-> "",
                      events |-> get_events_by_date_range(current, s, e, today)]
    /\ UNCHANGED <<today, seed, pc, runDate, feed, world, current, previous, archive,
                   newData, changes, outage, marker, report>>
    /\ UNCHANGED <<request, pool>>
    /\ UNCHANGED <<metadata, ret, range, everNew>>

QueryPlatform ==
    /\ pc = "idle"
    /\ \E p \in Platforms :
        answer' = [query |-> "platform", from |-> 0, to |-> 0, platform |-> p,
                   events |-> get_events_by_platform(current, p, today)]
    /\ UNCHANGED <<today, seed, pc, runDate, feed, world, current, previous, archive,
                   newData, changes, outage, marker, report>>
    /\ UNCHANGED <<request, pool>>
    /\ UNCHANGED <<metadata, ret, range, everNew>>

\* the feeds, and the market closures of two markets
QueryFeeds ==
    Feeds \cup {[platform |-> "eastmoney", kinds |-> {"xsap"}, sids |-> {"A", "B"}]}

InitQuery ==
    /\ today = DetectToday
    /\ seed = 0
    /\ pc = "rotated"
    /\ runDate = DetectToday - 1
    /\ feed \in QueryFeeds
    /\ world \in SeqsUpTo(Items(feed, QueryDays), MaxLen)
    /\ current = NoFiles
    /\ previous \in {NoFiles, [NoFiles EXCEPT ![feed.platform] = Snapshot(<<Stored(feed)>>)]}
    /\ archive = NoArchive
    /\ newData = NoData
    /\ changes = [p \in Platforms |-> NoChanges]
    /\ outage = {}
    /\ marker = FALSE
    /\ report = NoReport
    /\ answer = NoAnswer
    /\ request = NoRequest
    /\ pool = NoPool
    /\ metadata = NoMetadata
    /\ ret = NoReturn
    /\ range = NoRange
    /\ everNew = {}

NextQuery ==
    \/ CollectStep \/ DetectStep \/ PersistStep
    \/ QueryNew \/ QueryDate \/ QueryRange \/ QueryPlatform

SpecQuery == InitQuery /\ [][NextQuery]_vars

\* the list is sorted ascending by (event_date, event_time or "00:00:00")
SortedByDateTime(events) ==
    \A i \in 1..Len(events) : \A j \in 1..Len(events) :
        i < j => KeyLeq(events[i], events[j])

\* C19 as stated: every query returns a flat list in which no two events
\* share an event_id; the date-range query returns exactly the events of
\* current with start <= event_date <= end, sorted ascending by
\* (event_date, event_time or "00:00:00").
C19_QueriesDeduplicated ==
    answer.query # "none" =>
        /\ NoRepeatedId(answer.events)
        /\ answer.query = "range" =>
              /\ Range(answer.events) =
                     {e \in AllLoaded(current, today) :
                          answer.from <= e.event_date /\ e.event_date <= answer.to}
              /\ SortedByDateTime(answer.events)

----------------------------------------------------------------------------
(* The change report on many new events *)

\* a title longer than the report's samples
LongTitle == "Quarterly consumer price index release and central bank statement"

\* the importance the sources report for the events of a platform, in the
\* order of the list: cls passes the star on (None when the star is null),
\* jiuyangongshe derives it from the grade and investing from the icons; the
\* others have a fixed importance, written 0 here and not used
Stars(p) ==
    CASE p = "cls" -> {<<>>, <<-1>>, <<1, 3, -1, 2>>, <<2, 2, 2, 2>>}
      [] p = "jiuyangongshe" -> {<<>>, <<5>>, <<1, 4, 2, 4>>}
      [] p = "investing" -> {<<>>, <<1>>, <<3, 1, 2, 1>>}
      [] OTHER -> {<<>>, <<0>>, <<0, 0, 0, 0>>}

\* the i-th event of the collected list of a platform
Reported(p, stars, i) ==
    LET f == FeedOf(p)
        it == [sid |-> CHOOSE x \in f.sids : TRUE, date |-> DetectToday + i - 1,
               title |-> IF i = 2 THEN LongTitle ELSE FirstTitle,
               kind |-> CHOOSE k \in f.kinds : TRUE]
        e == Normalize(p, it, 0, DetectToday)
    IN  IF p \in {"cls", "jiuyangongshe", "investing"}
        THEN [e EXCEPT !.importance = stars[i]] ELSE e

InitReport ==
    /\ today = DetectToday
    /\ seed = 0
    /\ pc = "collected"
    /\ runDate = DetectToday - 1
    /\ feed = FeedOf("cls")
    /\ world = <<>>
    /\ current = NoFiles
    /\ previous = NoFiles
    /\ archive = NoArchive
    /\ \E stars \in [Platforms -> UNION {Stars(p) : p \in Platforms}] :
        /\ \A p \in Platforms : stars[p] \in Stars(p)
        /\ newData = [p \in Platforms |->
                         [i \in 1..Len(stars[p]) |-> Reported(p, stars[p], i)]]
    /\ changes = [p \in Platforms |-> NoChanges]
    /\ outage = {}
    /\ marker = FALSE
    /\ report = NoReport
    /\ answer = NoAnswer
    /\ request = NoRequest
    /\ pool = NoPool
    /\ metadata = NoMetadata
    /\ ret = NoReturn
    /\ range = NoRange
    /\ everNew = {}

NextReport == DetectStep

SpecReport == InitReport /\ [][NextReport]_vars

\* a missing importance counts as 0
ImportanceOrZero(v) == IF v = -1 THEN 0 ELSE v

Smaller(a, b) == IF a <= b THEN a ELSE b

\* s is the first TitleWidth characters of title
IsTitlePrefix(s, title) ==
    /\ Len(s) = Smaller(TitleWidth, Len(title))
    /\ s = SubSeq(title, 1, Len(s))

\* C20: top_new_events holds min(10, total new) entries, each taken from a
\* different new event of some platform, in non-increasing order of importance
\* with a missing importance counted as 0, and no omitted new event has a
\* strictly greater importance than an included one; each platform entry gives
\* the sizes of its three change sets and the first 50 characters of the
\* titles of its first 3 new events, or of all when there are fewer.
C20_ReportTopAndSamples ==
    pc = "detected" =>
        LET allNew == AllNewEvents(changes, 1)
            top == report.top_new_events
            heads == {Headline(e) : e \in Range(allNew)}
        IN  /\ Len(top) = Smaller(TopCount, Len(allNew))
            /\ Range(top) \subseteq heads
            /\ Cardinality(heads) = Len(allNew) => Cardinality(Range(top)) = Len(top)
            /\ \A i \in 1..Len(top) : \A j \in 1..Len(top) :
                  i < j => ImportanceOrZero(top[i].importance)
                               >= ImportanceOrZero(top[j].importance)
            /\ \A h \in heads \ Range(top) : \A i \in 1..Len(top) :
                  ImportanceOrZero(h.importance) <= ImportanceOrZero(top[i].importance)
            /\ \A p \in Platforms :
                  LET entry == report.platforms[p]
                      new == changes[p].new_events
                  IN  /\ entry.new_events = Len(new)
                      /\ entry.updated_events = Len(changes[p].updated_events)
                      /\ entry.cancelled_events = Len(changes[p].cancelled_events)
                      /\ Len(entry.sample_new_titles) = Smaller(SampleCount, Len(new))
                      /\ \A i \in 1..Len(entry.sample_new_titles) :
                            IsTitlePrefix(entry.sample_new_titles[i], new[i].title)

\* a report on more new events than the headlines take, with an event of
\* missing importance left out, a platform with more new events than samples
\* and a sample title that was cut
C20_Witness ==
    /\ pc = "detected"
    /\ Len(AllNewEvents(changes, 1)) > TopCount
    /\ Len(report.top_new_events) = TopCount
    /\ \E e \in Range(AllNewEvents(changes, 1)) :
        e.importance = -1 /\ Headline(e) \notin Range(report.top_new_events)
    /\ \E p \in Platforms :
        /\ Len(changes[p].new_events) > SampleCount
        /\ \E i \in 1..SampleCount :
            /\ Len(report.platforms[p].sample_new_titles[i]) = TitleWidth
            /\ Len(changes[p].new_events[i].title) > TitleWidth

----------------------------------------------------------------------------
(* Claims on the daily cycle as a whole *)

\* the steps of a daily update, in order
CycleOrder ==
    {<<"idle", "archived">>, <<"archived", "rotated">>, <<"rotated", "collected">>,
     <<"collected", "detected">>, <<"detected", "idle">>}

\* C21: the steps of a daily cycle run in the order archive(D), rotate(D),
\* collect, detect, persist; detection compares the collected lists with the
\* previous files rebuilt from current in the same cycle, and the save that
\* follows writes the collected lists with exactly the is_new and
\* discovery_date marks of that detection.
C21_CycleOrder ==
    [][/\ pc' # pc => <<pc, pc'>> \in CycleOrder
       /\ pc = "idle" /\ pc' = "archived" => runDate' = today - 1
       /\ pc = "collected" /\ pc' = "detected" =>
             \A p \in Platforms :
                 /\ previous[p].events = Later(current[p].events, runDate)
                 /\ changes'[p] =
                        MarkedChanges(_detect_platform_changes(
                            load_platform_data(previous[p], today), newData[p], today), today)
       /\ pc = "detected" /\ pc' = "idle" =>
             \A p \in Platforms :
                 /\ load_platform_data(current'[p], today) = newData[p]
                 /\ \A e \in Range(load_platform_data(current'[p], today)) :
                        /\ e.is_new <=>
                               _generate_event_key(e) \in KeySet(changes[p].new_events)
                        /\ _generate_event_key(e) \in
                               KeySet(changes[p].new_events) \cup KeySet(changes[p].updated_events)
                               => e.discovery_date = today]_vars

\* a cycle is about to save a list with an event detection marked new and one
\* it did not, after comparing with a previous file rebuilt from current
C21_Witness ==
    /\ pc = "detected"
    /\ \E p \in Platforms :
        /\ previous[p].events # <<>>
        /\ previous[p].events = Later(current[p].events, runDate)
        /\ \E e \in Range(newData[p]) : e.is_new
        /\ \E e \in Range(newData[p]) : ~e.is_new

----------------------------------------------------------------------------
(* The investing collector: one request per day, with retries *)

MaxRetries == 3

\* what the network does to one attempt
Nets == {"ok", "timeout", "garbled"}

\* _request_investing_single_day: the whole request and parse is inside a
\* try whose except returns [], so the call returns a list whatever happens
_request_investing_single_day(date, listed, net, now) ==
    IF net = "ok"
    THEN LET onDay(it) == it.date = date
             kept == SelectSeq(listed, onDay)
         IN  [i \in 1..Len(kept) |-> Normalize("investing", kept[i], 0, now)]
    ELSE <<>>

\* the except branch of the retry loop runs when the call above raises
SingleDayRaises(net) == FALSE

\* _request_investing_single_day_with_retry, from the given attempt on: the
\* list it returns and the number of attempts it made
RECURSIVE WithRetry(_, _, _, _, _)
WithRetry(date, listed, nets, attempt, now) ==
    IF SingleDayRaises(nets[attempt])
    THEN IF attempt = MaxRetries
         THEN [result |-> <<>>, attempts |-> attempt]
         ELSE WithRetry(date, listed, nets, attempt + 1, now)
    ELSE [result |-> _request_investing_single_day(date, listed, nets[attempt], now),
          attempts |-> attempt]

\* the store at rest on day DetectToday, no run under way
AtRest ==
    /\ today = DetectToday
    /\ seed = 0
    /\ pc = "idle"
    /\ runDate = 0
    /\ feed = FeedOf("investing")
    /\ world = <<>>
    /\ current = NoFiles
    /\ previous = NoFiles
    /\ archive = NoArchive
    /\ newData = NoData
    /\ changes = [p \in Platforms |-> NoChanges]
    /\ outage = {}
    /\ marker = FALSE
    /\ report = NoReport
    /\ answer = NoAnswer
    /\ metadata = NoMetadata
    /\ ret = NoReturn
    /\ range = NoRange
    /\ everNew = {}

InitRetry ==
    /\ AtRest
    /\ pool = NoPool
    /\ \E d \in QueryDays : \E nets \in [1..MaxRetries -> Nets] :
         \E listed \in SeqsUpTo(Items(FeedOf("investing"), QueryDays), MaxLen) :
            request = [NoRequest EXCEPT !.date = d, !.nets = nets, !.listed = listed]

\* a worker thread runs the request of its day
RequestDay ==
    /\ ~request.done
    /\ request.date # 0
    /\ LET r == WithRetry(request.date, request.listed, request.nets, 1, today)
       IN  request' = [request EXCEPT !.attempts = r.attempts, !.result = r.result,
                                      !.done = TRUE]
    /\ UNCHANGED <<today, seed, pc, runDate, feed, world, current, previous, archive,
                   newData, changes, outage, marker, report, answer, pool>>
    /\ UNCHANGED <<metadata, ret, range, everNew>>

NextRetry == RequestDay

SpecRetry == InitRetry /\ [][NextRetry]_vars

\* the first attempt the network lets through, 0 when there is none
FirstOk(nets) ==
    IF \E i \in 1..Len(nets) : nets[i] = "ok"
    THEN CHOOSE i \in 1..Len(nets) : nets[i] = "ok" /\ \A j \in 1..(i - 1) : nets[j] # "ok"
    ELSE 0

\* C22 as stated: a failed per-day request is retried, up to 3 attempts in
\* all, and the day degrades to zero events only after the last attempt
\* failed: the request returns the events of the first attempt that gets
\* through, having made that many attempts, and returns the empty list after
\* 3 attempts when none gets through.
C22_RetriedUpToThree ==
    request.done =>
        LET k == FirstOk(request.nets)
        IN  IF k = 0
            THEN request.result = <<>> /\ request.attempts = MaxRetries
            ELSE /\ request.attempts = k
                 /\ request.result =
                        _request_investing_single_day(request.date, request.listed,
                                                      "ok", today)

----------------------------------------------------------------------------
(* The investing collector: the worker pool over the days of the range *)

MaxWorkers == 5

\* the longest range of days collected
PoolDays == 6

\* date_list: every day from start_date to end_date, both included
DateList(start_date, end_date) ==
    [i \in 1..(IF end_date < start_date THEN 0 ELSE end_date - start_date + 1) |->
        start_date + i - 1]

\* a pool that starts a thread for every task
WorkerAlways(running) == TRUE

\* the pool starts a queued task while a worker is free
WorkerFree(running) == running < MaxWorkers

\* what the network does to the attempts of a day's task
NetsOf(failing, date) ==
    [a \in 1..MaxRetries |-> IF date \in failing THEN "timeout" ELSE "ok"]

\* what the source lists over the range: one row a day, two on the first day
ListedOver(start_date, end_date) ==
    LET f == FeedOf("investing")
        row(d, sid) == CHOOSE it \in Items(f, {d}) : it.sid = sid /\ it.title = FirstTitle
        days == DateList(start_date, end_date)
    IN  IF days = <<>> THEN <<>>
        ELSE <<row(start_date, "B")>> \o [i \in 1..Len(days) |-> row(days[i], "A")]

Running(t) == {i \in DOMAIN t : t[i] = "running"}

InitPool ==
    /\ AtRest
    /\ request = NoRequest
    /\ \E end_date \in (DetectToday - 1)..(DetectToday + PoolDays - 1) :
         \E failing \in {{}, {DetectToday + 1}} :
            LET days == DateList(DetectToday, end_date)
            IN  pool = [NoPool EXCEPT
                        !.start = DetectToday, !.end = end_date, !.dates = days,
                        !.listed = ListedOver(DetectToday, end_date),
                        !.failing = failing,
                        !.task = [i \in 1..Len(days) |-> "unsubmitted"],
                        !.result = [i \in 1..Len(days) |-> <<>>]]

\* executor.submit of the next date of date_list
Submit ==
    /\ pool.start # 0
    /\ pool.submitted < Len(pool.dates)
    /\ pool' = [pool EXCEPT !.submitted = @ + 1, !.task[pool.submitted + 1] = "queued"]
    /\ UNCHANGED <<today, seed, pc, runDate, feed, world, current, previous, archive,
                   newData, changes, outage, marker, report, answer, request>>
    /\ UNCHANGED <<metadata, ret, range, everNew>>

\* a worker thread takes the oldest queued task
StartTask ==
    /\ \E i \in DOMAIN pool.task :
        /\ pool.task[i] = "queued"
        /\ \A j \in 1..(i - 1) : pool.task[j] # "queued"
        /\ WorkerFree(Cardinality(Running(pool.task)))
        /\ pool' = [pool EXCEPT !.task[i] = "running"]
    /\ UNCHANGED <<today, seed, pc, runDate, feed, world, current, previous, archive,
                   newData, changes, outage, marker, report, answer, request>>
    /\ UNCHANGED <<metadata, ret, range, everNew>>

\* a running task returns the list of its day
FinishTask ==
    /\ \E i \in DOMAIN pool.task :
        /\ pool.task[i] = "running"
        /\ pool' = [pool EXCEPT
                    !.task[i] = "done",
                    !.result[i] = WithRetry(pool.dates[i], pool.listed,
                                            NetsOf(pool.failing, pool.dates[i]), 1,
                                            today).result]
    /\ UNCHANGED <<today, seed, pc, runDate, feed, world, current, previous, archive,
                   newData, changes, outage, marker, report, answer, request>>
    /\ UNCHANGED <<metadata, ret, range, everNew>>

\* the as_completed loop, entered when every task is submitted, takes a
\* finished task and extends all_events with its list
MergeTask ==
    /\ pool.start # 0
    /\ pool.submitted = Len(pool.dates)
    /\ \E i \in DOMAIN pool.task :
        /\ pool.task[i] = "done"
        /\ pool' = [pool EXCEPT !.task[i] = "merged",
                                !.order = Append(@, i),
                                !.all_events = @ \o pool.result[i]]
    /\ UNCHANGED <<today, seed, pc, runDate, feed, world, current, previous, archive,
                   newData, changes, outage, marker, report, answer, request>>
    /\ UNCHANGED <<metadata, ret, range, everNew>>

\* the loop is over: return all_events
ReturnAll ==
    /\ pool.start # 0
    /\ ~pool.returned
    /\ pool.submitted = Len(pool.dates)
    /\ \A i \in DOMAIN pool.task : pool.task[i] = "merged"
    /\ pool' = [pool EXCEPT !.returned = TRUE]
    /\ UNCHANGED <<today, seed, pc, runDate, feed, world, current, previous, archive,
                   newData, changes, outage, marker, report, answer, request>>
    /\ UNCHANGED <<metadata, ret, range, everNew>>

NextPool == Submit \/ StartTask \/ FinishTask \/ MergeTask \/ ReturnAll

\* every thread gets to run and every request ends (timeout of 15 seconds)
SpecPool == InitPool /\ [][NextPool]_vars /\ WF_vars(NextPool)

\* the number of times x occurs in the list
Occurrences(s, x) == Cardinality({i \in 1..Len(s) : s[i] = x})

\* the list a day's request returns, computed apart from the pool
DayEvents(d) ==
    WithRetry(d, pool.listed, NetsOf(pool.failing, d), 1, today).result

\* the number of times x occurs in the per-day results of the range
InDayResults(x) ==
    LET RECURSIVE Sum(_)
        Sum(d) == IF d > pool.end THEN 0
                  ELSE Occurrences(DayEvents(d), x) + Sum(d + 1)
    IN  Sum(pool.start)

C23_PoolSafe ==
    pool.start # 0 =>
        \* one task per day of the range
        /\ Len(pool.dates) = (IF pool.end < pool.start THEN 0
                              ELSE pool.end - pool.start + 1)
        /\ DOMAIN pool.task = 1..Len(pool.dates)
        /\ \A d \in pool.start..pool.end :
              Cardinality({i \in DOMAIN pool.task : pool.dates[i] = d}) = 1
        /\ pool.submitted <= Len(pool.dates)
        \* at most 5 at a time
        /\ Cardinality(Running(pool.task)) <= MaxWorkers
        \* the list is returned when every task is over, and is their union
        /\ pool.returned =>
              /\ \A i \in DOMAIN pool.task : pool.task[i] = "merged"
              /\ \A x \in {pool.all_events[k] : k \in 1..Len(pool.all_events)} \cup
                          UNION {{DayEvents(d)[k] : k \in 1..Len(DayEvents(d))} :
                                    d \in pool.start..pool.end} :
                    Occurrences(pool.all_events, x) = InDayResults(x)

\* C23: over [start, end] and under every interleaving of the worker threads,
\* one task is issued per day of the range, at most 5 tasks run at a time,
\* the collection returns once every task has completed, and the returned
\* list is the multiset union of the per-day results.
C23_PoolMerge == []C23_PoolSafe /\ <>(pool.returned)

\* six days collected, the second failed, the days merged out of day order,
\* and the list returned
C23_Witness ==
    /\ pool.returned
    /\ Len(pool.dates) > MaxWorkers
    /\ pool.failing # {}
    /\ \E a, b \in 1..Len(pool.order) : a < b /\ pool.order[a] > pool.order[b]
    /\ Len(pool.all_events) = Len(pool.dates)

----------------------------------------------------------------------------
(* Claims on the lifecycle over several days *)

\* the file holds a record of the event
HoldsEvent(file, e) ==
    /\ file.st = "ok"
    /\ \E i \in 1..Len(file.events) : file.events[i].event_id = e.event_id

\* C24 as stated: no persisted event is lost by the lifecycle. When a cycle
\* run on day T has archived and rotated, every event of the current snapshot
\* it found is in the archive of its month if it is dated before T, and in the
\* rebuilt previous partition if it is dated T or later.
C24_NoEventLost ==
    pc = "rotated" =>
        \A p \in Platforms :
            LET found == load_platform_data(current[p], today)
            IN  \A i \in 1..Len(found) :
                    IF found[i].event_date < today
                    THEN HoldsEvent(archive[p][Month(found[i].event_date)], found[i])
                    ELSE HoldsEvent(previous[p], found[i])

\* C25 as stated: the detector never matches two events of different event_id
\* as the same event. After detection, an event of the collected list dated
\* today or later whose event_id is not in previous is flagged new, and an
\* event of previous dated today or later whose event_id is not in the
\* collected list is in the cancelled set.
C25_DistinctIdsNeverMatched ==
    pc = "detected" =>
        \A p \in Platforms :
            /\ \A e \in Range(newData[p]) :
                  (e.event_date >= today /\ e.event_id \notin EventIds(PrevOf(p)))
                      => e.is_new
            /\ \A r \in Range(PrevOf(p)) :
                  (r.event_date >= today /\ r.event_id \notin EventIds(newData[p]))
                      => r.event_id \in EventIds(changes[p].cancelled_events)

\* the lists hold the same events but for the annotations of detection
SameEvents(a, b) ==
    /\ Len(a) = Len(b)
    /\ \A i \in 1..Len(a) : SameEvent(a[i], b[i])

\* C26 as stated: a second daily cycle on the same day with the same adapter
\* output is idempotent on current. When a run saves a platform's list that
\* is, annotations apart, the list current holds from a run of the same day,
\* the saved list equals the one current held, is_new flags included.
C26_SameDayRerunIdempotent ==
    [][pc = "detected" /\ pc' = "idle" =>
          \A p \in Platforms :
              LET first == load_platform_data(current[p], today)
                  second == load_platform_data(current'[p], today)
              IN  (/\ first # <<>>
                   /\ \A e \in Range(first) : e.discovery_date = today
                   /\ SameEvents(first, newData[p]))
                      => second = first]_vars

----------------------------------------------------------------------------
(* One cycle a day, with a platform's collection failing on some days *)

InitOutage ==
    /\ today = 1
    /\ seed = 0
    /\ pc = "idle"
    /\ runDate = 0
    /\ feed \in Feeds
    /\ \E it \in Items(feed, Days) : it.title = FirstTitle /\ world = <<it>>
    /\ current = NoFiles
    /\ previous = NoFiles
    /\ archive = NoArchive
    /\ newData = NoData
    /\ changes = [p \in Platforms |-> NoChanges]
    /\ outage = {}
    /\ marker = FALSE
    /\ report = NoReport
    /\ answer = NoAnswer
    /\ request = NoRequest
    /\ pool = NoPool
    /\ metadata = NoMetadata
    /\ ret = NoReturn
    /\ range = NoRange
    /\ everNew = {}

\* the platform's API goes down or comes back between two runs
OutageStep ==
    /\ pc = "idle"
    /\ outage' = (IF outage = {} THEN {feed.platform} ELSE {})
    /\ UNCHANGED <<today, seed, pc, runDate, feed, world, current, previous, archive,
                   newData, changes, marker, report, answer, request, pool>>
    /\ UNCHANGED <<metadata, ret, range, everNew>>

\* the scheduled run of the day, once a day: the change report on disk shows
\* the day of the last run
DailyRun == ArchiveStep /\ report.day # today

\* midnight passes after the run of the day
NextDay == Tick /\ report.day = today

NextOutage ==
    \/ OutageStep
    \/ DailyRun
    \/ RotateStep
    \/ CollectStep
    \/ DetectStep
    \/ PersistStep
    \/ NextDay

SpecOutage == InitOutage /\ [][NextOutage]_vars

\* C27 as stated: over consecutive daily cycles an event that stays in the
\* source with an unchanged identity key is classified new at most once, also
\* when the platform's collection fails on a day in between: no detection
\* classifies new a key that an earlier detection classified new.
C27_NewAtMostOnce ==
    [][pc = "collected" /\ pc' = "detected" =>
          \A p \in Platforms : KeySet(changes'[p].new_events) \cap everNew = {}]_vars

----------------------------------------------------------------------------
(* PlatformRangeDetector *)

\* the days a collection may start on: a day of the year the horizons are
\* written for, and the first day of the year after
RangeStarts == {DetectToday, YearEnd + 1}

\* cache_key
CacheKey(p, start_date) == <<p, start_date>>

InitRange ==
    /\ AtRest
    /\ request = NoRequest
    /\ pool = NoPool

\* get_platform_date_range(platform, start_date): the cached horizon when
\* there is one, else the horizon of the platform, which is cached
get_platform_date_range ==
    /\ \E p \in Platforms : \E start_date \in RangeStarts :
        LET cache_key == CacheKey(p, start_date)
            max_date == IF cache_key \in DOMAIN range.cache
                        THEN range.cache[cache_key]
                        ELSE Horizon(p, start_date)
        IN  range' = [cache |-> [k \in DOMAIN range.cache \cup {cache_key} |->
                                    IF k = cache_key THEN max_date ELSE range.cache[k]],
                      platform |-> p, start_date |-> start_date, max_date |-> max_date,
                      returned |-> range.returned \cup {<<cache_key, max_date>>}]
    /\ UNCHANGED <<today, seed, pc, runDate, feed, world, current, previous, archive,
                   newData, changes, outage, marker, report, answer, request, pool,
                   metadata, ret, everNew>>

NextRange == get_platform_date_range

SpecRange == InitRange /\ [][NextRange]_vars

\* C28 as stated: for every platform and start date the horizon returned by
\* get_platform_date_range is on or after the start date, so that the window
\* [start, horizon] is never empty, and a repeated call with the same platform
\* and start date returns the same horizon.
C28_HorizonNotBeforeStart ==
    /\ range.platform # "" => range.max_date >= range.start_date
    /\ \A a, b \in range.returned : a[1] = b[1] => a[2] = b[2]

----------------------------------------------------------------------------
(* Daily updates that a failing step cuts short *)

\* a step of run_daily_update before the save raises (a write or the removal
\* of previous/ fails, an ill-typed record breaks a comparison): the except
\* clause prints the error and the run returns False. The step raising while
\* pc = "idle" is the archive step; the rotation may raise after it removed
\* previous/.
Abort ==
    /\ pc \in {"idle", "archived", "rotated", "collected"}
    /\ pc' = "idle"
    /\ previous' \in (IF pc = "archived" THEN {previous, NoFiles} ELSE {previous})
    /\ newData' = NoData
    /\ changes' = [p \in Platforms |-> NoChanges]
    /\ seed' = 0
    /\ runDate' = 0
    /\ ret' = [call |-> "run_daily_update", value |-> "False"]
    /\ UNCHANGED <<today, feed, world, current, archive, outage, marker, report,
                   answer, request, pool, metadata, range, everNew>>

NextAbort ==
    \/ Abort
    \/ ArchiveStep
    \/ RotateStep
    \/ CollectStep
    \/ DetectStep
    \/ PersistStep
    \/ Tick

SpecAbort == InitOutage /\ [][NextAbort]_vars

\* C29: a daily update that returns False because a step before the save
\* raised leaves the platform snapshots and the metadata of current as they
\* were before the run: no step of a run before its save, the failing one
\* included, changes them. A daily update that returns True has written the
\* snapshot of every collected platform and the summary of what it collected.
C29_FailedRunKeepsCurrent ==
    [][/\ pc # "detected" => current' = current /\ metadata' = metadata
       /\ (ret'.value = "False" /\ ret' # ret) => pc # "detected"
       /\ (pc = "detected" /\ ret'.value = "True") =>
             /\ \A p \in Platforms :
                   /\ current'[p].st = "ok"
                   /\ load_platform_data(current'[p], today) = newData[p]
                   /\ metadata'.platforms[p] = Len(newData[p])
             /\ metadata'.day = today
             /\ metadata'.total_events =
                   Len(newData["cls"]) + Len(newData["jiuyangongshe"])
                       + Len(newData["tonghuashun"]) + Len(newData["investing"])
                       + Len(newData["eastmoney"])]_vars

\* a run that had rebuilt previous and collected returned False, and current
\* and its metadata are those of the successful run of the day before
C29_Witness ==
    /\ ret = [call |-> "run_daily_update", value |-> "False"]
    /\ pc = "idle"
    /\ metadata.total_events > 0
    /\ metadata.day = today - 1
    /\ \E p \in Platforms :
          /\ current[p].st = "ok" /\ current[p].events # <<>>
          /\ previous[p].st = "ok"

----------------------------------------------------------------------------
(* The entry points on a fresh installation *)

InitEntry ==
    /\ today = 1
    /\ seed = 0
    /\ pc = "idle"
    /\ runDate = 0
    /\ feed \in Feeds
    /\ world \in SeqsUpTo({it \in Items(feed, Days) : it.title = FirstTitle}, 1)
    /\ current = NoFiles
    /\ previous = NoFiles
    /\ archive = NoArchive
    /\ newData = NoData
    /\ changes = [p \in Platforms |-> NoChanges]
    /\ outage \in {{}, {feed.platform}}
    /\ marker = FALSE
    /\ report = NoReport
    /\ answer = NoAnswer
    /\ request = NoRequest
    /\ pool = NoPool
    /\ metadata = NoMetadata
    /\ ret = NoReturn
    /\ range = NoRange
    /\ everNew = {}

\* run_first_time outside the first-run state: it prints a hint and returns
\* False
FirstRunRefused ==
    /\ pc = "idle"
    /\ ~_is_first_run(current)
    /\ ret' = [call |-> "run_first_time", value |-> "False"]
    /\ UNCHANGED <<today, seed, pc, runDate, feed, world, current, previous, archive,
                   newData, changes, outage, marker, report, answer, request, pool,
                   metadata, range, everNew>>

\* python daily_calendar.py without arguments: the first collection in the
\* first-run state, else the daily update, which starts with its archive step
DefaultEntry ==
    IF _is_first_run(current) THEN FirstRunStep ELSE ArchiveStep

\* run_first_time is FirstRunStep in the first-run state and FirstRunRefused
\* outside it
NextEntry ==
    \/ FirstRunStep
    \/ FirstRunRefused
    \/ DefaultEntry
    \/ RotateStep
    \/ CollectStep
    \/ DetectStep
    \/ PersistStep
    \/ Tick

SpecEntry == InitEntry /\ [][NextEntry]_vars

\* C30: once run_first_time has returned True (it wrote the marker), the
\* system is not in the first-run state, whatever the adapters returned: the
\* default entry point starts the daily update, and run_first_time returns
\* False and leaves every file as it is.
C30_FirstRunOnlyOnce ==
    [][marker' =>
          /\ ~_is_first_run(current')
          /\ (marker /\ pc = "idle" /\ pc' = "idle" /\ ret' # ret) =>
                /\ ret' = [call |-> "run_first_time", value |-> "False"]
                /\ UNCHANGED <<current, previous, archive, metadata, marker, report,
                               newData>>
          /\ (marker /\ pc = "idle" /\ pc' # "idle") => pc' = "archived"]_vars

\* the first run stored empty lists for every platform, and a second
\* run_first_time was refused
C30_Witness ==
    /\ marker
    /\ ret = [call |-> "run_first_time", value |-> "False"]
    /\ \A p \in Platforms : current[p] = Snapshot(<<>>)

====
